---- MODULE Spec2Model ----
(***************************************************************************)
(* Dual coordinate descent for linear L1-/L2-SVM: class CD of              *)
(* fastlib2/contrib/houyang/svm/opt_cd.h (InitPara, LearnersInit_, Train,  *)
(* Bias, GetW).                                                            *)
(*                                                                         *)
(* A C++ double is modelled as an extended rational <<n, d>>: d > 0 is the *)
(* number n/d in lowest terms, <<1,0>> is +INFINITY, <<-1,0>> is -INFINITY *)
(* and <<0,0>> is NaN.  Arithmetic is exact (rounding is abstracted away), *)
(* the special values follow IEEE 754, and every ordered comparison with   *)
(* NaN is false.  Indices are 0-based as in the source.                    *)
(***************************************************************************)
EXTENDS Integers, Sequences, FiniteSets

(************************* double arithmetic *******************************)

Abs(n) == IF n < 0 THEN -n ELSE n

Sgn(n) == IF n > 0 THEN 1 ELSE IF n < 0 THEN -1 ELSE 0

RECURSIVE GCD(_, _)
GCD(a, b) == IF b = 0 THEN a ELSE GCD(b, a % b)

\* the double n/d; a zero denominator gives +-INFINITY or NaN
Norm(n, d) ==
  IF d = 0 THEN <<Sgn(n), 0>>
  ELSE LET g == GCD(Abs(n), Abs(d))
           s == Sgn(d)
       IN  <<(s * n) \div g, (s * d) \div g>>

\* the double of an integer
Dbl(k) == <<k, 1>>

Zero == <<0, 1>>

One == <<1, 1>>

Half == <<1, 2>>

INFINITY == <<1, 0>>

NegINFINITY == <<-1, 0>>

NaN == <<0, 0>>

IsNaN(a) == a = NaN

IsFinite(a) == a[2] > 0

Neg(a) == <<-a[1], a[2]>>

Add(a, b) ==
  IF IsNaN(a) \/ IsNaN(b) THEN NaN
  ELSE IF ~IsFinite(a) /\ ~IsFinite(b) THEN (IF a = b THEN a ELSE NaN)
  ELSE IF ~IsFinite(a) THEN a
  ELSE IF ~IsFinite(b) THEN b
  ELSE Norm(a[1] * b[2] + b[1] * a[2], a[2] * b[2])

Sub(a, b) == Add(a, Neg(b))

\* 0 * INFINITY is NaN: Norm(0, 0)
Mul(a, b) == IF IsNaN(a) \/ IsNaN(b) THEN NaN ELSE Norm(a[1] * b[1], a[2] * b[2])

\* x / 0.0 is +-INFINITY for x # 0 and NaN for x = 0; x / INFINITY is 0
Div(a, b) ==
  IF IsNaN(a) \/ IsNaN(b) THEN NaN
  ELSE IF ~IsFinite(a) /\ ~IsFinite(b) THEN NaN
  ELSE IF ~IsFinite(b) THEN Zero
  ELSE IF ~IsFinite(a) THEN (IF b[1] < 0 THEN Neg(a) ELSE a)
  ELSE Norm(a[1] * b[2], a[2] * b[1])

\* a < b on doubles
Less(a, b) ==
  IF IsNaN(a) \/ IsNaN(b) \/ a = b THEN FALSE
  ELSE IF a = NegINFINITY \/ b = INFINITY THEN TRUE
  ELSE IF a = INFINITY \/ b = NegINFINITY THEN FALSE
  ELSE a[1] * b[2] < b[1] * a[2]

\* a <= b on doubles
Leq(a, b) == ~IsNaN(a) /\ ~IsNaN(b) /\ (a = b \/ Less(a, b))

\* std::max(a, b) is (a < b) ? b : a
max(a, b) == IF Less(a, b) THEN b ELSE a

\* std::min(a, b) is (b < a) ? b : a
min(a, b) == IF Less(b, a) THEN b ELSE a

\* sqrt of a double; the model's feature values are negative or perfect squares
sqrt(a) ==
  IF IsNaN(a) \/ a[1] < 0 THEN NaN
  ELSE IF ~IsFinite(a) THEN a
  ELSE LET rn == CHOOSE r \in 0..a[1] : r * r = a[1]
           rd == CHOOSE r \in 1..a[2] : r * r = a[2]
       IN  Norm(rn, rd)

\* CD_ALPHA_ZERO is 1.0e-7 == 1 / CD_ALPHA_ZERO_INV
CD_ALPHA_ZERO_INV == 10000000

\* a <= CD_ALPHA_ZERO, decided without forming n * 10^7
LeqAlphaZero(a) ==
  IF IsNaN(a) THEN FALSE
  ELSE IF ~IsFinite(a) THEN a = NegINFINITY
  ELSE a[1] <= 0 \/ CD_ALPHA_ZERO_INV <= a[2] \div a[1]

\* 1.0e-12 == 1 / (Million * Million)
Million == 1000000

\* fabs(a) > 1.0e-12, decided without forming 10^12
FabsAboveTiny(a) ==
  IF IsNaN(a) THEN FALSE
  ELSE IF ~IsFinite(a) THEN TRUE
  ELSE a[1] # 0 /\ ((a[2] \div Abs(a[1])) \div Million) < Million

(***************************** bounds **************************************)

\* most epochs a parameter bundle asks for
MaxEpochs == 2

\* largest explicit iteration count of a parameter bundle
MaxIter == 3

\* largest numerator or denominator a coordinate step starts from
MaxMagnitude == 1000

(***************************** inputs **************************************)

\* feature values: a negative one, one with sqrt(x) = x^2, one with sqrt(x) # x^2
FeatureValues == <<Dbl(-1), Dbl(1), Dbl(4)>>

\* raw label-row values
LabelValues == <<Dbl(-1), Dbl(1)>>

\* the columns of the model's data matrices: row 0 is the feature, row 1 the label
Columns ==
  [k \in 0..(Len(FeatureValues) * Len(LabelValues) - 1) |->
     [r \in {0, 1} |-> IF r = 0 THEN FeatureValues[(k \div Len(LabelValues)) + 1]
                       ELSE LabelValues[(k % Len(LabelValues)) + 1]]]

\* numbers of samples (columns) of the model's datasets
SampleCounts == {1, 2}

\* the datasets Train is called with, one per multiset of columns (the shuffle
\* makes every visiting order of the columns happen)
Datasets ==
  UNION {{[c \in 0..(n - 1) |-> Columns[s[c]]] :
            s \in {u \in [0..(n - 1) -> DOMAIN Columns] :
                     \A c \in 1..(n - 1) : u[c - 1] <= u[c]}} : n \in SampleCounts}

\* the parameter bundles param_ InitPara is called with (learner_typeid = 0): one
\* penalty is 1; an explicit iteration count comes with no or one epoch
Params ==
  {p \in [Cp : {Dbl(0), Dbl(1), Dbl(2)}, Cn : {Dbl(0), Dbl(1)},
          regularization : {1, 2}, n_epochs : 0..MaxEpochs, n_iter : {0, MaxIter},
          accuracy : {Dbl(0), Dbl(2)}] :
     /\ p.Cn = Zero => p.Cp = One
     /\ p.n_iter > 0 => p.n_epochs <= 1}

\* param_ before InitPara is called
NoParams ==
  [Cp |-> Zero, Cn |-> Zero, regularization |-> 0, n_epochs |-> 0, n_iter |-> 0,
   accuracy |-> Zero]

\* what a read of a double that was never written can yield
Uninitialized == {Zero, Dbl(3)}

(****************************** state **************************************)

VARIABLES
  pc,                 \* "new", "aborted", "ready", "perm", "swap", "inner", "done"
  debug,              \* whether DEBUG_ASSERT is compiled in
  param_,             \* the bundle InitPara was called with
  dataset_in,         \* the dataset's matrix as it was when Train was called
  datamatrix_,        \* alias of the dataset's matrix: datamatrix_[col][row]
  n_data_, n_features_, n_features_bias_, n_alpha_,
  Cp_, Cn_, regularization_, n_epochs_, n_iter_, accuracy_,
  alpha_, w_, y_, QD,
  old_from_new,
  i, j,               \* the loop indices, as the last loop that used them left them
  epo, t,
  pgrad_max_old, pgrad_min_old, pgrad_max_new, pgrad_min_new,
  stopping_condition,
  ret_Bias, ret_GetW, \* what Bias() and GetW() returned, <<>> before the call
  visited,            \* history: the samples the current epoch's steps visited
  pgrads,             \* history: the projected gradients of the current epoch
  gaps,               \* history: pgrad_max_new - pgrad_min_new of each finished epoch
  alpha_init,         \* history: alpha_ as LearnersInit_ left it
  n_steps             \* history: number of coordinate steps executed so far

vars ==
  <<pc, debug, param_, dataset_in, datamatrix_, n_data_, n_features_,
    n_features_bias_, n_alpha_, Cp_, Cn_, regularization_, n_epochs_, n_iter_,
    accuracy_, alpha_, w_, y_, QD, old_from_new, i, j, epo, t, pgrad_max_old,
    pgrad_min_old, pgrad_max_new, pgrad_min_new, stopping_condition, ret_Bias,
    ret_GetW, visited, pgrads, gaps, alpha_init, n_steps>>

paramVars == <<param_, Cp_, Cn_, regularization_, n_epochs_, n_iter_, accuracy_>>

shapeVars == <<n_data_, n_features_, n_features_bias_, n_alpha_>>

modelVars == <<alpha_, w_, y_, QD>>

permVars == <<old_from_new, i, j>>

pgradVars == <<pgrad_max_old, pgrad_min_old, pgrad_max_new, pgrad_min_new>>

retVars == <<ret_Bias, ret_GetW>>

histVars == <<visited, pgrads, gaps, alpha_init, n_steps>>

\* CD() {} assigns nothing; members never read before they are set start at 0
Init ==
  /\ pc = "new"
  /\ debug \in BOOLEAN
  /\ param_ = NoParams
  /\ dataset_in \in Datasets
  /\ datamatrix_ = dataset_in
  /\ n_data_ = 0 /\ n_features_ = 0 /\ n_features_bias_ = 0 /\ n_alpha_ = 0
  /\ Cp_ = Zero /\ Cn_ = Zero /\ regularization_ = 0
  /\ n_epochs_ = 0 /\ n_iter_ = 0 /\ accuracy_ = Zero
  /\ alpha_ = <<>> /\ w_ = <<>> /\ y_ = <<>> /\ QD = <<>>
  /\ old_from_new = <<>> /\ i = 0 /\ j = 0 /\ epo = 0 /\ t = 0
  /\ pgrad_max_old = INFINITY /\ pgrad_min_old = NegINFINITY
  /\ pgrad_max_new = NegINFINITY /\ pgrad_min_new = INFINITY
  /\ stopping_condition = 0
  /\ ret_Bias = <<>> /\ ret_GetW = <<>>
  /\ visited = <<>> /\ pgrads = <<>> /\ gaps = <<>> /\ alpha_init = <<>> /\ n_steps = 0

(************************** InitPara ***************************************)

\* mutant: the assertion on Cn_ is missing
AssertionFails_CpOnly(p) == debug /\ p.Cp = Zero

\* DEBUG_ASSERT(Cp_ != 0); DEBUG_ASSERT(Cn_ != 0): checked in debug builds only
AssertionFails(p) == debug /\ (p.Cp = Zero \/ p.Cn = Zero)

\* InitPara(0, param_): a failed assertion aborts the process
InitPara ==
  /\ pc = "new"
  /\ \E p \in Params :
       /\ param_' = p
       /\ Cp_' = p.Cp
       /\ Cn_' = p.Cn
       /\ IF AssertionFails(p)
          THEN /\ pc' = "aborted"
               /\ UNCHANGED <<regularization_, n_epochs_, n_iter_, accuracy_>>
          ELSE /\ pc' = "ready"
               /\ regularization_' = p.regularization
               /\ n_epochs_' = p.n_epochs
               /\ n_iter_' = p.n_iter
               /\ accuracy_' = p.accuracy
  /\ UNCHANGED <<debug, dataset_in, datamatrix_, shapeVars, modelVars, permVars,
                 epo, t, pgradVars, stopping_condition, retVars, histVars>>

(************************ Train: prologue **********************************)

\* y_[i] = datamatrix_.get(n_rows - 1, i) > 0 ? 1 : -1
Label(m, F, c) == IF Less(Zero, m[c][F]) THEN 1 ELSE -1

\* locals of Train, set once before the loops from Cp_, Cn_ and regularization_
diag_p == IF regularization_ = 1 THEN Zero ELSE Div(Half, Cp_)

diag_n == IF regularization_ = 1 THEN Zero ELSE Div(Half, Cn_)

upper_bound_p == IF regularization_ = 1 THEN Cp_ ELSE INFINITY

upper_bound_n == IF regularization_ = 1 THEN Cn_ ELSE INFINITY

\* the term the QD loop adds for feature value v
QDTerm(v) == sqrt(v)

\* QD[c] after the inner loop over features 0..k-1
RECURSIVE QDSum(_, _, _, _)
QDSum(m, c, k, start) ==
  IF k = 0 THEN start ELSE Add(QDSum(m, c, k - 1, start), QDTerm(m[c][k - 1]))

\* QD[c] = diag + sum_j sqrt(feature(j, c)) + 1
QDOf(m, F, c, yc) == Add(QDSum(m, c, F, IF yc > 0 THEN diag_p ELSE diag_n), One)

\* the inner-loop bound once the epoch count has been looked at
NIterFor(nepochs, niter, n) == IF nepochs > 0 THEN n ELSE niter

NEpochsFor(nepochs) == IF nepochs > 0 THEN nepochs ELSE 1

\* alpha_ after LearnersInit_: Init, SetZero, and Init once more.  Init allocates and
\* leaves the contents unwritten (every other Init is followed by SetZero or a fill)
AlphaAfterInit(n) == [0..(n - 1) -> Uninitialized]

\* Train up to the outer loop: shapes, LearnersInit_, QD, n_iter_/n_epochs_, epo = 0
TrainBegin ==
  /\ pc = "ready"
  /\ LET n == Cardinality(DOMAIN datamatrix_)
         F == Cardinality(DOMAIN datamatrix_[0]) - 1
         y == [c \in 0..(n - 1) |-> Label(datamatrix_, F, c)]
     IN  /\ n_data_' = n
         /\ n_features_' = F
         /\ n_features_bias_' = F + 1
         /\ n_alpha_' = n
         /\ alpha_' \in AlphaAfterInit(n)
         /\ alpha_init' = alpha_'
         /\ w_' = [k \in 0..F |-> Zero]
         /\ y_' = y
         /\ QD' = [c \in 0..(n - 1) |-> QDOf(datamatrix_, F, c, y[c])]
         /\ n_iter_' = NIterFor(n_epochs_, n_iter_, n)
         /\ n_epochs_' = NEpochsFor(n_epochs_)
         /\ old_from_new' = [c \in 0..(n - 1) |-> 0]
         /\ i' = n
         /\ j' = F
  /\ pgrad_max_old' = INFINITY
  /\ pgrad_min_old' = NegINFINITY
  /\ epo' = 0
  /\ stopping_condition' = 0
  /\ pc' = "perm"
  /\ UNCHANGED <<debug, param_, dataset_in, datamatrix_, Cp_, Cn_, regularization_,
                 accuracy_, t, pgrad_max_new, pgrad_min_new, retVars, visited, pgrads,
                 gaps, n_steps>>

(************************ Train: permutation *******************************)

\* for (i = 0; i < n_data_; i++) old_from_new[i] = i
PermInit ==
  /\ pc = "perm"
  /\ old_from_new' = [c \in 0..(n_data_ - 1) |-> c]
  /\ i' = 0
  /\ pc' = "swap"
  /\ UNCHANGED <<debug, paramVars, dataset_in, datamatrix_, shapeVars, modelVars, j,
                 epo, t, pgradVars, stopping_condition, retVars, histVars>>

\* the positions rand() % n_data_ can yield at loop index k
SwapTargets(k, n) == 0..(n - 1)

\* one pass of the shuffle loop: j = rand() % n_data_; swap(old_from_new[i], old_from_new[j])
PermSwap ==
  /\ pc = "swap"
  /\ i < n_data_
  /\ \E jj \in SwapTargets(i, n_data_) :
       /\ j' = jj
       /\ old_from_new' =
            [old_from_new EXCEPT ![i] = old_from_new[jj], ![jj] = old_from_new[i]]
  /\ i' = i + 1
  /\ UNCHANGED <<pc, debug, paramVars, dataset_in, datamatrix_, shapeVars, modelVars,
                 epo, t, pgradVars, stopping_condition, retVars, histVars>>

\* the shuffle loop is over: reset the epoch's accumulators, t = 0
InnerBegin ==
  /\ pc = "swap"
  /\ i >= n_data_
  /\ pgrad_max_new' = NegINFINITY
  /\ pgrad_min_new' = INFINITY
  /\ t' = 0
  /\ visited' = <<>>
  /\ pgrads' = <<>>
  /\ pc' = "inner"
  /\ UNCHANGED <<debug, paramVars, dataset_in, datamatrix_, shapeVars, modelVars,
                 permVars, epo, pgrad_max_old, pgrad_min_old, stopping_condition,
                 retVars, gaps, alpha_init, n_steps>>

(********************** Train: coordinate step *****************************)

\* for (t = 0; t <= n_iter_; t++)
InnerContinues(tt, niter) == tt <= niter

\* xi: the column aliased by MakeColumnVector, after xi[n_features_] = 1.0
AugmentedColumn(col, F) == [col EXCEPT ![F] = One]

\* sum over j = 0..k-1 of w_[j] * xi[j], accumulated from G = 0
RECURSIVE DotProduct(_, _, _)
DotProduct(w, xi, k) ==
  IF k = 0 THEN Zero ELSE Add(DotProduct(w, xi, k - 1), Mul(w[k - 1], xi[k - 1]))

\* G = (w . xi) * yi - 1, then G += alpha_[wi] * diag
Gradient(w, xi, yi, a, diag) ==
  Add(Sub(Mul(DotProduct(w, xi, n_features_bias_), Dbl(yi)), One), Mul(a, diag))

\* the projected gradient of a coordinate at a, with gradient G and upper bound C
ProjectedGradient(a, G, C) ==
  IF LeqAlphaZero(a) THEN min(G, Zero)
  ELSE IF LeqAlphaZero(Sub(C, a)) THEN max(G, Zero)
  ELSE G

\* alpha_[wi] = min(max(alpha_[wi] - G / QD[wi], 0.0), C)
NewAlpha(a, G, qd, C) == min(max(Sub(a, Div(G, qd)), Zero), C)

\* w_[j] = w_[j] + diff * xi[j] for j < n_features_bias_
NewW(w, diff, xi) == [k \in DOMAIN w |-> Add(w[k], Mul(diff, xi[k]))]

\* every entry of alpha_ and w_ has numerator and denominator within MaxMagnitude
Representable ==
  /\ \A c \in DOMAIN alpha_ :
       Abs(alpha_[c][1]) <= MaxMagnitude /\ alpha_[c][2] <= MaxMagnitude
  /\ \A k \in DOMAIN w_ : Abs(w_[k][1]) <= MaxMagnitude /\ w_[k][2] <= MaxMagnitude

\* one pass of the inner loop, for the sample at permutation position t % n_data_
InnerStep ==
  /\ pc = "inner"
  /\ InnerContinues(t, n_iter_)
  /\ Representable
  /\ LET wi    == old_from_new[t % n_data_]
         xi    == AugmentedColumn(datamatrix_[wi], n_features_)
         yi    == y_[wi]
         C     == IF yi > 0 THEN upper_bound_p ELSE upper_bound_n
         diag  == IF yi > 0 THEN diag_p ELSE diag_n
         G     == Gradient(w_, xi, yi, alpha_[wi], diag)
         pgrad == ProjectedGradient(alpha_[wi], G, C)
         anew  == NewAlpha(alpha_[wi], G, QD[wi], C)
         diff  == Mul(Sub(anew, alpha_[wi]), Dbl(yi))
     IN  /\ datamatrix_' = [datamatrix_ EXCEPT ![wi] = xi]
         /\ pgrad_max_new' = max(pgrad_max_new, pgrad)
         /\ pgrad_min_new' = min(pgrad_min_new, pgrad)
         /\ IF FabsAboveTiny(pgrad)
            THEN /\ alpha_' = [alpha_ EXCEPT ![wi] = anew]
                 /\ w_' = NewW(w_, diff, xi)
            ELSE UNCHANGED <<alpha_, w_>>
         /\ visited' = Append(visited, wi)
         /\ pgrads' = Append(pgrads, pgrad)
  /\ t' = t + 1
  /\ j' = n_features_bias_
  /\ n_steps' = n_steps + 1
  /\ UNCHANGED <<pc, debug, paramVars, dataset_in, shapeVars, y_, QD, old_from_new, i,
                 epo,
                 pgrad_max_old, pgrad_min_old, stopping_condition, retVars, gaps,
                 alpha_init>>

(********************** Train: optimality check ****************************)

\* mutant: the gap test is strict
GapTest_Strict(pmax, pmin, acc) == Less(Sub(pmax, pmin), acc)

\* pgrad_max_new - pgrad_min_new <= accuracy_
GapTest(pmax, pmin, acc) == Leq(Sub(pmax, pmin), acc)

\* mutant: the epoch limit is tested with >
EpochLimit_Late(e, nepochs) == e > nepochs

\* epo >= n_epochs_, after epo++
EpochLimit(e, nepochs) == e >= nepochs

\* the inner loop is over: test the gap, else carry the bounds forward and count
CheckOptimality ==
  /\ pc = "inner"
  /\ ~InnerContinues(t, n_iter_)
  /\ gaps' = Append(gaps, Sub(pgrad_max_new, pgrad_min_new))
  /\ IF GapTest(pgrad_max_new, pgrad_min_new, accuracy_)
     THEN /\ stopping_condition' = 1
          /\ pc' = "done"
          /\ UNCHANGED <<epo, pgrad_max_old, pgrad_min_old>>
     ELSE /\ pgrad_max_old' =
               IF Leq(pgrad_max_new, Zero) THEN INFINITY ELSE pgrad_max_new
          /\ pgrad_min_old' =
               IF Leq(Zero, pgrad_min_new) THEN NegINFINITY ELSE pgrad_min_new
          /\ epo' = epo + 1
          /\ IF EpochLimit(epo + 1, n_epochs_)
             THEN stopping_condition' = 2 /\ pc' = "done"
             ELSE stopping_condition' = 0 /\ pc' = "perm"
  /\ UNCHANGED <<debug, paramVars, dataset_in, datamatrix_, shapeVars, modelVars,
                 permVars, t, pgrad_max_new, pgrad_min_new, retVars, visited, pgrads,
                 alpha_init, n_steps>>

(***************************** getters *************************************)

\* Bias() returns bias_, which no line of the class assigns
Bias ==
  /\ pc = "done"
  /\ ret_Bias = <<>>
  /\ \E v \in Uninitialized : ret_Bias' = v
  /\ UNCHANGED <<pc, debug, paramVars, dataset_in, datamatrix_, shapeVars, modelVars,
                 permVars, epo, t, pgradVars, stopping_condition, ret_GetW, histVars>>

\* GetW() returns &w_
GetW ==
  /\ pc = "done"
  /\ ret_GetW = <<>>
  /\ ret_GetW' = w_
  /\ UNCHANGED <<pc, debug, paramVars, dataset_in, datamatrix_, shapeVars, modelVars,
                 permVars, epo, t, pgradVars, stopping_condition, ret_Bias, histVars>>

(*************************** specification *********************************)

Next ==
  \/ InitPara
  \/ TrainBegin
  \/ PermInit
  \/ PermSwap
  \/ InnerBegin
  \/ InnerStep
  \/ CheckOptimality
  \/ Bias
  \/ GetW

Spec == Init /\ [][Next]_vars

(************************ helpers of the properties ************************)

\* Train has allocated alpha_, w_, y_ and QD
Allocated == pc \in {"perm", "swap", "inner", "done"}

\* the inner loop of the current epoch is over and the gap test is next
InnerLoopOver == pc = "inner" /\ ~(t <= n_iter_)

\* C_i: Cp for a sample labelled +1, Cn for a sample labelled -1
UpperBoundOf(c) == IF y_[c] > 0 THEN Cp_ ELSE Cn_

\* component k of [x_c, 1]
Augmented(c, k) == IF k = n_features_ THEN One ELSE dataset_in[c][k]

\* sum over samples 0..n-1 of alpha_[c] * y_[c] * [x_c, 1][k], from scratch
RECURSIVE Recomputed(_, _)
Recomputed(k, n) ==
  IF n = 0 THEN Zero
  ELSE Add(Recomputed(k, n - 1),
           Mul(Mul(alpha_[n - 1], Dbl(y_[n - 1])), Augmented(n - 1, k)))

\* sum over features 0..k-1 of feature(c, j) squared
RECURSIVE SquaredNorm(_, _)
SquaredNorm(c, k) ==
  IF k = 0 THEN Zero
  ELSE Add(SquaredNorm(c, k - 1), Mul(dataset_in[c][k - 1], dataset_in[c][k - 1]))

\* the offset of sample c: 1/(2 Cp) or 1/(2 Cn) in L2 mode, 0 in L1 mode
OffsetOf(c) ==
  IF regularization_ = 1 THEN Zero
  ELSE Div(One, Mul(Dbl(2), UpperBoundOf(c)))

\* the projected gradients of the current epoch that are numbers
EpochNumbers == {pgrads[k] : k \in {m \in DOMAIN pgrads : ~IsNaN(pgrads[m])}}

EpochMax ==
  IF EpochNumbers = {} THEN NegINFINITY
  ELSE CHOOSE m \in EpochNumbers : \A x \in EpochNumbers : Leq(x, m)

EpochMin ==
  IF EpochNumbers = {} THEN INFINITY
  ELSE CHOOSE m \in EpochNumbers : \A x \in EpochNumbers : Leq(m, x)

\* positive penalties and no negative feature
PlainInput ==
  /\ Less(Zero, param_.Cp) /\ Less(Zero, param_.Cn)
  /\ \A c \in DOMAIN dataset_in :
       \A k \in 0..(Cardinality(DOMAIN dataset_in[c]) - 2) :
         ~Less(dataset_in[c][k], Zero)

\* runs that meet none of the other defects: plain input, and alpha_ found zero after
\* LearnersInit_
CleanInput ==
  /\ PlainInput
  /\ \A c \in DOMAIN alpha_init : alpha_init[c] = Zero

IsPermutation(f, n) ==
  /\ DOMAIN f = 0..(n - 1)
  /\ \A c \in 0..(n - 1) : \E k \in 0..(n - 1) : f[k] = c

(******************************* claims ************************************)

\* C1: for Cp > 0 and Cn > 0, once alpha_ is allocated every alpha_[i] satisfies
\* 0 <= alpha_[i], and alpha_[i] <= C_i in L1 mode (regularization_ = 1).
C1_BoundInvariant ==
  (Allocated /\ Less(Zero, Cp_) /\ Less(Zero, Cn_)) =>
    \A c \in DOMAIN alpha_ :
      /\ Leq(Zero, alpha_[c])
      /\ regularization_ = 1 => Leq(alpha_[c], UpperBoundOf(c))

\* C2 (positive penalties, no negative feature): once w_ is allocated, after any
\* number of coordinate steps in any order, every
\* component of w_ is the value a from-scratch evaluation of
\* sum_i alpha_[i] * y_[i] * [x_i, 1] gives.
C2_WeightConsistency ==
  (Allocated /\ PlainInput) => \A k \in DOMAIN w_ : w_[k] = Recomputed(k, n_data_)

\* C3 as stated, on runs that meet none of the other defects: with accuracy = 0 and maxEpochs = k >= 1, Train ends in
\* EPOCH_LIMIT_REACHED (stopping_condition = 2) after exactly k epochs, never CONVERGED.
C3_EpochLimitAlways ==
  (/\ pc = "done"
   /\ param_.accuracy = Zero
   /\ param_.n_epochs >= 1
   /\ CleanInput) =>
    (stopping_condition = 2 /\ epo = param_.n_epochs)

\* C3 amended: with accuracy = 0 and maxEpochs = k >= 1, Train ends in
\* EPOCH_LIMIT_REACHED after exactly k epochs when every epoch's gap
\* pgrad_max_new - pgrad_min_new is above 0; the first epoch whose gap is <= 0 (all its
\* projected gradients equal) ends training in CONVERGED, in at most k epochs.
C3_EpochLimitUnlessZeroGap ==
  (pc = "done" /\ param_.accuracy = Zero /\ param_.n_epochs >= 1) =>
    /\ \A e \in 1..(Len(gaps) - 1) : ~Leq(gaps[e], Zero)
    /\ \/ /\ stopping_condition = 2
          /\ epo = param_.n_epochs
          /\ Len(gaps) = param_.n_epochs
          /\ ~Leq(gaps[Len(gaps)], Zero)
       \/ /\ stopping_condition = 1
          /\ Len(gaps) <= param_.n_epochs
          /\ epo = Len(gaps) - 1
          /\ Leq(gaps[Len(gaps)], Zero)

\* accuracy 0, two epochs allowed: the second epoch's gap is exactly 0 and Train
\* has ended CONVERGED
C3_Witness ==
  /\ pc = "done"
  /\ CleanInput
  /\ param_.accuracy = Zero
  /\ param_.n_epochs = 2
  /\ stopping_condition = 1
  /\ Len(gaps) = 2
  /\ gaps[2] = Zero

\* C4 (on runs that meet none of the other defects): after Train has returned,
\* Bias() is the last component w_[F] of the augmented weight vector and the vector
\* GetW() gives has length F.
C4_OutputContract ==
  (pc = "done" /\ CleanInput) =>
    /\ ret_Bias # <<>> => ret_Bias = w_[n_features_]
    /\ ret_GetW # <<>> => Cardinality(DOMAIN ret_GetW) = n_features_

\* C5 (on runs that meet none of the other defects): every entry of the dataset's
\* matrix (feature rows and label row) keeps the value it had before Train was called.
C5_DatasetUnchanged == (pc # "new" /\ CleanInput) => datamatrix_ = dataset_in

\* C6 as stated, for the two errors that need no zero penalty (on inputs that meet
\* none of the other defects): with accuracy <= 0 or maxEpochs <= 0 no coordinate
\* update step is ever executed.
C6_NoStepOnConfigError ==
  (/\ pc # "new"
   /\ CleanInput
   /\ Leq(param_.accuracy, Zero) \/ param_.n_epochs <= 0) =>
    n_steps = 0

\* C6 amended: only a zero penalty is rejected, and only where DEBUG_ASSERT is compiled
\* in: there InitPara aborts on Cp = 0 or Cn = 0 before anything is allocated or any
\* coordinate step runs; nothing else aborts (accuracy <= 0 and maxEpochs <= 0 train).
C6_AssertionAborts ==
  /\ (pc # "new" /\ debug /\ (param_.Cp = Zero \/ param_.Cn = Zero)) =>
       (pc = "aborted" /\ n_steps = 0 /\ alpha_ = <<>> /\ w_ = <<>>)
  /\ pc = "aborted" => (debug /\ (param_.Cp = Zero \/ param_.Cn = Zero))

\* InitPara has aborted on a zero Cn
C6_Witness == pc = "aborted" /\ param_.Cn = Zero /\ param_.Cp # Zero

\* C7 (on runs that meet none of the other defects): an epoch's inner loop executes exactly maxIterationsPerEpoch steps when that
\* count is given and exactly n steps, each sample once, when it is 0; step t visits
\* the sample at permutation position t mod n.
C7_StepCount ==
  (InnerLoopOver /\ CleanInput) =>
    /\ Len(visited) = IF param_.n_iter > 0 THEN param_.n_iter ELSE n_data_
    /\ param_.n_iter = 0 =>
         \A c \in 0..(n_data_ - 1) :
           Cardinality({k \in DOMAIN visited : visited[k] = c}) = 1
    /\ \A k \in DOMAIN visited : visited[k] = old_from_new[(k - 1) % n_data_]

\* C8: when an epoch's inner loop is over, pgrad_max_new and pgrad_min_new are the
\* largest and smallest projected gradient of that epoch's steps alone; Train ends
\* CONVERGED exactly when their difference is <= accuracy_, tested before the epoch
\* counter moves (so also in the last permitted epoch); it ends EPOCH_LIMIT_REACHED
\* exactly when the test fails and the counter reaches n_epochs_, every epoch having
\* failed the test; after either, no coordinate update happens.
C8_StoppingRule ==
  [][/\ InnerLoopOver =>
          /\ pgrad_max_new = EpochMax
          /\ pgrad_min_new = EpochMin
          /\ stopping_condition' = 1 <=> Leq(Sub(EpochMax, EpochMin), accuracy_)
          /\ stopping_condition' = 1 => (epo' = epo /\ epo < n_epochs_)
          /\ stopping_condition' = 2 <=>
               (~Leq(Sub(EpochMax, EpochMin), accuracy_) /\ epo + 1 >= n_epochs_)
          /\ stopping_condition' = 2 =>
               /\ epo' = n_epochs_
               /\ \A e \in DOMAIN gaps' : ~Leq(gaps'[e], accuracy_)
          /\ stopping_condition' = 0 <=> pc' = "perm"
          /\ stopping_condition' # 0 <=> pc' = "done"
     /\ stopping_condition # 0 =>
          /\ pc' = "done"
          /\ stopping_condition' = stopping_condition
          /\ alpha_' = alpha_ /\ w_' = w_ /\ n_steps' = n_steps]_vars

\* Train has ended CONVERGED in the last permitted epoch, after a failed one
C8_Witness ==
  /\ pc = "done"
  /\ CleanInput
  /\ stopping_condition = 1
  /\ epo >= 1
  /\ epo = n_epochs_ - 1

\* C9 (on runs that meet none of the other defects): when an epoch's inner loop
\* starts old_from_new is a permutation of [0, n), and every swap of the shuffle pairs
\* position i with a position j, i <= j < n.
C9_ShuffleLaterOrEqual ==
  CleanInput =>
    /\ pc = "inner" => IsPermutation(old_from_new, n_data_)
    /\ (pc = "swap" /\ i >= 1) => (i - 1 <= j /\ j < n_data_)

\* C10 (on runs that meet none of the other defects): QD[i] is offset_i + (sum over the features of feature(i, j) squared) + 1 from
\* the moment it is computed, and keeps that value for the whole run.
C10_QDSquaredNorm ==
  (Allocated /\ CleanInput) =>
    \A c \in DOMAIN QD :
      QD[c] = Add(Add(OffsetOf(c), SquaredNorm(c, n_features_)), One)

====
